---- MODULE Spec2Model ----
(***************************************************************************)
(* HotelFetch (hotel_fetch.py): the search paginator (scrape_search), the  *)
(* per-hotel drill with its dependent price request (scrape_hotels), the   *)
(* chunked drill of a listing (drill_listings) and the country/city batch  *)
(* driver (run), as one state machine.                                     *)
(*                                                                         *)
(* The program is a single asyncio event loop: the coroutine run() is the  *)
(* driver, pc is its position.  Tasks created by asyncio.gather advance    *)
(* only while the driver is suspended at an await.                         *)
(***************************************************************************)
EXTENDS Integers, Sequences, FiniteSets, TLC

\* ------------------------------------------------------------------ bounds
\* largest result count a search site reports in the paginator family
MaxReported == 52
\* largest number of keys two adjacent result pages share
MaxOverlap == 2
\* largest result count a site reports in the single-city drill family
MaxListing == 13
\* number of countries of the batch input
NumCountries == 2
\* number of faults (fetch errors, pages without a marker) the outside world injects
MaxFaults == 1
\* longest text following a token marker in the token-extraction family
MaxTail == 3
\* largest page number a review list shows in its pagination
MaxPages == 5

\* ------------------------------------------------------- program constants
\* search page size: range(25, total_results, 25)
PAGE_SIZE == 25
\* a ceiling of three pages instead of two
CeilingOfThreePages == 3 * PAGE_SIZE

\* parse_search_total_results: more than 50 results count as 50
CEILING == 50
\* create_nested_list: chunk_size
CHUNK_SIZE == 5
\* "e.g. London: 1,232 properties found"
EXAMPLE_TOTAL == 1232
\* create_review_url: page_size
REVIEW_PAGE_SIZE == 25

Min(a, b) == IF a < b THEN a ELSE b

Range(s) == {s[i] : i \in DOMAIN s}

\* ---------------------------------------------------------------- headings
Digits == <<"0", "1", "2", "3", "4", "5", "6", "7", "8", "9">>

\* the decimal digits of n, most significant first
RECURSIVE DigitsOf(_)
DigitsOf(n) ==
    IF n < 10 THEN <<Digits[n + 1]>>
    ELSE Append(DigitsOf(n \div 10), Digits[(n % 10) + 1])

\* a thousands separator before every group of three digits but the first
RECURSIVE Group(_)
Group(ds) ==
    IF Len(ds) <= 3 THEN ds
    ELSE Group(SubSeq(ds, 1, Len(ds) - 3)) \o <<",">> \o SubSeq(ds, Len(ds) - 2, Len(ds))

\* the count as the site prints it in the heading: "1,232"
Heading(n) == Group(DigitsOf(n))

\* str.replace(",", "")
RECURSIVE RemoveCommas(_)
RemoveCommas(s) ==
    IF s = <<>> THEN <<>>
    ELSE IF Head(s) = "," THEN RemoveCommas(Tail(s))
    ELSE <<Head(s)>> \o RemoveCommas(Tail(s))

DigitValue(c) == CHOOSE d \in 0..9 : Digits[d + 1] = c

\* int(): the digits read as a decimal number
RECURSIVE ParseInt(_)
ParseInt(s) ==
    IF s = <<>> THEN 0
    ELSE 10 * ParseInt(SubSeq(s, 1, Len(s) - 1)) + DigitValue(s[Len(s)])

\* the count without its ceiling
TotalWithoutCeiling(heading) == ParseInt(RemoveCommas(heading))

\* parse_search_total_results on the heading's count text
parse_search_total_results(heading) ==
    LET total_results == ParseInt(RemoveCommas(heading))
    IN  IF total_results > CEILING THEN CEILING ELSE total_results

\* ------------------------------------------------------------ ordered dicts
\* a Python dict as the sequence of its items [key, val] in insertion order
DictKeys(d) == [i \in DOMAIN d |-> d[i].key]

HasKey(d, k) == \E i \in DOMAIN d : d[i].key = k

DictGet(d, k) == d[CHOOSE i \in DOMAIN d : d[i].key = k].val

\* d[k] = v: an existing key keeps its place and takes the new value
DictSet(d, k, v) ==
    IF HasKey(d, k)
    THEN [i \in DOMAIN d |-> IF d[i].key = k THEN [key |-> k, val |-> v] ELSE d[i]]
    ELSE Append(d, [key |-> k, val |-> v])

\* hotel_previews = parse_search_page(result) in place of update
DictReplace(d, e) == e

\* d.update(e): the items of e assigned in e's order
RECURSIVE DictUpdate(_, _)
DictUpdate(d, e) ==
    IF e = <<>> THEN d
    ELSE DictUpdate(DictSet(d, Head(e).key, Head(e).val), Tail(e))

\* -------------------------------------------------------------- search site
\* A site answers one query: it reports `reported` properties, renders at most
\* `cards` property cards per result page, and its ranking shifts by `overlap`
\* items per page between requests (adjacent pages then share `overlap` keys).
Site(r, c, ov) == [reported |-> r, cards |-> c, overlap |-> ov]

\* number of property cards on the result page at `offset`
PageCards(s, offset) ==
    IF s.reported > offset THEN Min(s.cards, s.reported - offset) ELSE 0

\* the property cards of the result page at `offset`, in page order: the
\* canonical URL of each and the preview data, which tells the page it is from
PageOf(s, offset) ==
    [j \in 1..PageCards(s, offset) |->
        [key |-> offset + j - s.overlap * (offset \div PAGE_SIZE),
         val |-> [item |-> offset + j, page |-> offset]]]

\* parse_search_page: hotel_previews[url] = {...} for every card of the page
RECURSIVE parse_search_page(_)
parse_search_page(cards) ==
    IF cards = <<>> THEN <<>>
    ELSE DictSet(parse_search_page(SubSeq(cards, 1, Len(cards) - 1)),
                 cards[Len(cards)].key, cards[Len(cards)].val)

\* range(0, total_results, 25): the first page once more
OffsetsFromZero(total) ==
    LET n == Cardinality({k \in 0..total : k * PAGE_SIZE < total})
    IN  [k \in 1..n |-> (k - 1) * PAGE_SIZE]

\* range(25, total_results, 25) as a list
OtherOffsets(total) ==
    LET n == Cardinality({k \in 1..total : k * PAGE_SIZE < total})
    IN  [k \in 1..n |-> k * PAGE_SIZE]

\* ------------------------------------------------------------ detail pages
\* A detail page body is a sequence of symbols: "H", "C", "A", "S" stand for the
\* texts b_hotel_id:, b_csrf_token:, b_aid:, b_sid:, "q" for a single quote,
\* "n" for a newline (white space, and no match for .) and "x" for any other
\* character.
Whitespace == {"n"}

NoMatch == [found |-> FALSE, group |-> <<>>]

\* the match of  marker\s*'(.+?)'  that starts at position i, if there is one
MatchAt(body, i, marker) ==
    LET after == {k \in (i + 1)..Len(body) : body[k] \notin Whitespace}
        k == IF after = {} THEN 0 ELSE CHOOSE a \in after : \A b \in after : a <= b
        ends == {e \in (k + 2)..Len(body) :
                    /\ body[e] = "q"
                    /\ \A m \in (k + 1)..(e - 1) : body[m] # "n"}
    IN  IF body[i] # marker \/ k = 0 THEN NoMatch
        ELSE IF body[k] # "q" \/ ends = {} THEN NoMatch
        ELSE [found |-> TRUE,
              group |-> SubSeq(body, k + 1, (CHOOSE e \in ends : \A f \in ends : e <= f) - 1)]

\* re.findall(marker\s*'(.+?)', content): its first element, NoMatch when the
\* list is empty (indexing [0] then raises IndexError)
FindFirst(body, marker) ==
    LET starts == {i \in 1..Len(body) : MatchAt(body, i, marker).found}
    IN  IF starts = {} THEN NoMatch
        ELSE MatchAt(body, CHOOSE i \in starts : \A j \in starts : i <= j, marker)

\* the three secret tokens of scrape_hotel, in the order the code reads them
TokenMarkers == <<"C", "A", "S">>

\* a search that finds nothing yields an empty token instead of raising
ExtractTokensLenient(body) ==
    [ok |-> TRUE, tokens |-> [m \in 1..3 |-> FindFirst(body, TokenMarkers[m]).group]]

\* csrf_token, aid, sid: the groups found, or the failure of the first search
\* that finds nothing
ExtractTokens(body) ==
    LET found == [m \in 1..3 |-> FindFirst(body, TokenMarkers[m])]
    IN  IF \A m \in 1..3 : found[m].found
        THEN [ok |-> TRUE, tokens |-> [m \in 1..3 |-> found[m].group]]
        ELSE [ok |-> FALSE, tokens |-> <<>>]

\* parse_hotel reads the hotel id with the same kind of pattern
ParseHotelId(body) == FindFirst(body, "H")

GoodTail == <<"q", "x", "q">>

GoodBody == <<"H">> \o GoodTail \o <<"C">> \o GoodTail \o <<"A">> \o GoodTail
            \o <<"S">> \o GoodTail

\* a page whose session id marker is missing
BadBody == <<"H">> \o GoodTail \o <<"C">> \o GoodTail \o <<"A">> \o GoodTail

\* every text of at most n symbols that may follow a marker
RECURSIVE Tails(_)
Tails(n) ==
    IF n = 0 THEN {<<>>}
    ELSE LET shorter == Tails(n - 1)
         IN  shorter \cup {Append(t, c) : t \in shorter, c \in {"q", "x", "n"}}

\* a marker with its tail, or nothing at all where the marker is absent
Fragments(marker) == {<<>>} \cup {<<marker>> \o t : t \in Tails(MaxTail)}

\* a marker with a well-formed value, or nothing at all
Plain(marker) == {<<>>, <<marker>> \o GoodTail}

\* the bodies of the token-extraction family: a hotel id and the three token
\* fragments, one of them any fragment, the other two plain
TokenBodies ==
    {<<"H">> \o GoodTail \o c \o a \o s :
        c \in Fragments("C"), a \in Plain("A"), s \in Plain("S")}
    \cup {<<"H">> \o GoodTail \o c \o a \o s :
        c \in Plain("C"), a \in Fragments("A"), s \in Plain("S")}
    \cup {<<"H">> \o GoodTail \o c \o a \o s :
        c \in Plain("C"), a \in Plain("A"), s \in Fragments("S")}

\* the cookie jar the session starts with, before any response set a cookie
SessionJar == "session"

NoRequest ==
    [hotel_id |-> <<>>, csrf |-> <<>>, aid |-> <<>>, sid |-> <<>>, cookies |-> ""]

\* the cookies of the session's own jar in place of the response's
PriceRequestSessionJar(hotel_id, tokens, cookies) ==
    [hotel_id |-> hotel_id, csrf |-> tokens[1], aid |-> tokens[2], sid |-> tokens[3],
     cookies |-> SessionJar]

\* lines 165-201: the price request built from the hotel id, the tokens and
\* the cookies of the detail page's response
PriceRequest(hotel_id, tokens, cookies) ==
    [hotel_id |-> hotel_id, csrf |-> tokens[1], aid |-> tokens[2], sid |-> tokens[3],
     cookies |-> cookies]

\* lines 158-186 on the response to a detail page request, its body and its
\* cookies: parse_hotel reads the hotel id, the tokens are searched, and if
\* nothing raised the price request is built
Scrape(body, cookies) ==
    LET id == ParseHotelId(body)
        tk == ExtractTokens(body)
    IN  IF id.found /\ tk.ok
        THEN [ok |-> TRUE, id |-> id.group,
              req |-> PriceRequest(id.group, tk.tokens, cookies)]
        ELSE [ok |-> FALSE, id |-> <<>>, req |-> NoRequest]

\* the responses to a detail page request, a body of the family with a jar of
\* cookies, each with what scrape_hotel reads from it
Scraped(family, jars) ==
    {[body |-> b, cookies |-> j, read |-> Scrape(b, j)] : b \in family, j \in jars}

PairPages == Scraped({GoodBody, BadBody}, {"a"})

TokenPages == Scraped(TokenBodies, {"a"})

\* a second well-formed page, of another hotel with other tokens
OtherTail == <<"q", "x", "x", "q">>

OtherBody == <<"H">> \o OtherTail \o <<"C">> \o OtherTail \o <<"A">> \o OtherTail
             \o <<"S">> \o OtherTail

\* two hotels' pages and two jars of cookies, in every pairing
SiblingPages == Scraped({GoodBody, OtherBody, BadBody}, {"a", "b"})

\* ------------------------------------------------------------------ chunks
\* range(0, len - chunk_size + 1, chunk_size): the short last chunk is lost
ChunksWithoutTail(urls_list) ==
    LET n == Len(urls_list) \div CHUNK_SIZE
    IN  [c \in 1..n |->
            SubSeq(urls_list, (c - 1) * CHUNK_SIZE + 1, c * CHUNK_SIZE)]

\* create_nested_list: [urls_list[i:i+chunk_size] for i in range(0, len, chunk_size)]
create_nested_list(urls_list) ==
    LET n == Cardinality({k \in 0..Len(urls_list) : k * CHUNK_SIZE < Len(urls_list)})
    IN  [c \in 1..n |->
            SubSeq(urls_list, (c - 1) * CHUNK_SIZE + 1,
                   Min(c * CHUNK_SIZE, Len(urls_list)))]

\* result.insert(0, listing): the hotel read last comes first
RECURSIVE FlattenLatestFirst(_)
FlattenLatestFirst(lists) ==
    IF lists = <<>> THEN <<>>
    ELSE LET rest == FlattenLatestFirst(Tail(lists))
             head == Head(lists)
         IN  rest \o [k \in 1..Len(head) |-> head[Len(head) + 1 - k]]

\* drill_listings, lines 310-314: the sublists joined into one list
RECURSIVE Flatten(_)
Flatten(lists) ==
    IF lists = <<>> THEN <<>> ELSE Head(lists) \o Flatten(Tail(lists))

\* ------------------------------------------------------------------- state
VARIABLES
    cities,          \* country_cities_dict: for each country its list of city names
    world,           \* the family of sites the run meets
    pages,           \* the responses a detail page request may be answered by
    faults,          \* faults injected so far
    pc,              \* where run() stands
    country,         \* index of the country of the outer loop
    city,            \* index of the city of the inner loop
    final_result,    \* country -> city name -> list of hotels
    file_run,        \* the file result_<timestamp>.json
    file_final,      \* the file final_result.json
    site,            \* the site answering the current query
    total_results,   \* scrape_search: total_results
    hotel_previews,  \* scrape_search: hotel_previews
    requested,       \* offsets of the search pages requested by this scrape_search
    inflight,        \* offsets of the follow-up pages not yet arrived
    urls_list,       \* drill_listings: urls_list
    chunked_lists,   \* drill_listings: chunked_lists
    drill_results,   \* drill_listings: drill_results
    tasks,           \* the scrape_hotel tasks alive in the event loop
    result_hotels,   \* run: result_hotels
    i,               \* run: i
    status,          \* the state of every (country, city) work item
    raised_in,       \* for every work item, the call of run() that raised
    total_pages,     \* scrape_reviews: total_pages
    reviews          \* scrape_reviews: reviews

vars == <<cities, world, pages, faults, pc, country, city, final_result, file_run,
          file_final, site, total_results, hotel_previews, requested, inflight,
          urls_list, chunked_lists, drill_results, tasks, result_hotels, i, status,
          raised_in, total_pages, reviews>>

inputs == <<cities, world, pages>>
files == <<file_run, file_final>>
search == <<site, total_results, hotel_previews, requested, inflight>>
drill == <<urls_list, chunked_lists, drill_results>>
review == <<total_pages, reviews>>

NoSite == Site(0, 0, 0)
NoFile == [written |-> FALSE, doc |-> <<>>]
NoHotel == [url |-> 0, id |-> <<>>, price |-> FALSE]

\* json.dump(final_result, f) into a file opened with "w"
Dump(doc) == [written |-> TRUE, doc |-> doc]

\* the (country, city index) work items of an input
Items(cs) == UNION {{<<c, k>> : k \in 1..Len(cs[c])} : c \in DOMAIN cs}

\* the city lists of the batch family: up to renaming, every list of one or
\* two cities of a country
CityLists == {<<1>>, <<1, 1>>, <<1, 2>>}

\* result counts reported to the batch family: none, one page, two pages; the
\* sites of this family render one card per page, so its listings have at most
\* two hotels (the drill family has the long listings)
RunReported == {0, 1, PAGE_SIZE + 1}

\* the sites a search query may be answered by
Sites ==
    CASE world = "batch" -> {Site(r, 1, 0) : r \in RunReported}
      [] world = "search" ->
            {Site(r, PAGE_SIZE, ov) : r \in (0..MaxReported) \cup {EXAMPLE_TOTAL, 3045},
                                      ov \in 0..MaxOverlap}
      [] world = "drill" ->
            {Site(r, PAGE_SIZE, 0) : r \in (0..MaxListing) \cup {PAGE_SIZE + 1}}
      [] world = "tokens" -> {Site(1, PAGE_SIZE, 0)}
      [] world = "cities" -> {Site(r, PAGE_SIZE, 0) : r \in {2, CHUNK_SIZE}}
      [] world = "siblings" -> {Site(r, PAGE_SIZE, 0) : r \in {2, 3}}

\* the responses a detail page request may be answered by in a world
PagesOf(wd) ==
    CASE wd = "tokens" -> TokenPages
      [] wd = "siblings" -> SiblingPages
      [] OTHER -> PairPages

Start(cs, wd) ==
    /\ cities = cs
    /\ world = wd
    /\ pages = PagesOf(wd)
    /\ faults = 0
    /\ pc = IF wd = "reviews" THEN "reviews" ELSE "country"
    /\ country = 1
    /\ city = 1
    /\ final_result = <<>>
    /\ file_run = NoFile
    /\ file_final = NoFile
    /\ site = NoSite
    /\ total_results = 0
    /\ hotel_previews = <<>>
    /\ requested = <<>>
    /\ inflight = {}
    /\ urls_list = <<>>
    /\ chunked_lists = <<>>
    /\ drill_results = <<>>
    /\ tasks = {}
    /\ result_hotels = <<>>
    /\ i = 0
    /\ status = [w \in Items(cs) |-> "PENDING"]
    /\ raised_in = [w \in Items(cs) |-> "none"]
    /\ total_pages = 0
    /\ reviews = <<>>

\* the inputs of the batch family: the entries of different countries are
\* separate dicts, so one country takes every city list and the countries
\* after it have one city each
BatchInputs == {<<l>> \o [c \in 1..(NumCountries - 1) |-> <<1>>] : l \in CityLists}

\* the batch: NumCountries countries, small listings
Init == \E cs \in BatchInputs : Start(cs, "batch")

\* the paginator: one city, every reported count, full pages, shifting ranks
InitSearch == Start(<<<<1>>>>, "search")

\* the drill of one city: listings of up to MaxListing hotels, and a two-page one
InitDrill == Start(<<<<1>>>>, "drill")

\* token extraction: one city with one hotel, every body of the family
InitTokens == Start(<<<<1>>>>, "tokens")

\* two cities whose listings fill a chunk or a part of one
InitCities == Start(<<<<1, 2>>>>, "cities")

\* one city of two or three hotels, whose responses can be told apart
InitSiblings == Start(<<<<1>>>>, "siblings")

\* scrape_reviews on its own: one call for one hotel
InitReviews == Start(<<<<1>>>>, "reviews")

\* the driver is suspended at an await: the event loop runs other tasks
Awaiting == pc \in {"first_page", "pages", "gather"}

CityName == cities[country][city]

ResetLocals ==
    /\ site' = NoSite
    /\ total_results' = 0
    /\ hotel_previews' = <<>>
    /\ requested' = <<>>
    /\ inflight' = {}
    /\ urls_list' = <<>>
    /\ chunked_lists' = <<>>
    /\ drill_results' = <<>>
    /\ result_hotels' = <<>>
    /\ i' = 0

\* no try/except around the city: the exception ends run()
ExceptCityAborts(call) ==
    /\ status' = [status EXCEPT ![<<country, city>>] = "FAILED"]
    /\ raised_in' = [raised_in EXCEPT ![<<country, city>>] = call]
    /\ pc' = "done"
    /\ ResetLocals
    /\ UNCHANGED <<inputs, review, country, city, final_result, files>>

\* lines 364-365: the exception of the city is caught, the loop goes on
ExceptCity(call) ==
    /\ status' = [status EXCEPT ![<<country, city>>] = "FAILED"]
    /\ raised_in' = [raised_in EXCEPT ![<<country, city>>] = call]
    /\ city' = city + 1
    /\ pc' = "city"
    /\ ResetLocals
    /\ UNCHANGED <<inputs, review, country, final_result, files>>

\* ------------------------------------------------------------------ run()
\* lines 350-351: the next country, final_result[country] = {}
EnterCountry ==
    /\ pc = "country"
    /\ country <= Len(cities)
    /\ final_result' = Append(final_result, <<>>)
    /\ city' = 1
    /\ pc' = "city"
    /\ UNCHANGED <<inputs, review, faults, country, files, search, drill, tasks,
                   result_hotels, i, status, raised_in>>

\* run() returns; asyncio.run cancels the tasks still alive (line 377)
RunReturn ==
    /\ pc = "country"
    /\ country > Len(cities)
    /\ pc' = "done"
    /\ tasks' = {}
    /\ UNCHANGED <<inputs, review, faults, country, city, final_result, files, search,
                   drill, result_hotels, i, status, raised_in>>

\* lines 352-354, 272, 92-95: the next city, its first search page is requested
StartCity ==
    /\ pc = "city"
    /\ city <= Len(cities[country])
    /\ requested' = <<0>>
    /\ pc' = "first_page"
    /\ UNCHANGED <<inputs, review, faults, country, city, final_result, files, site,
                   total_results, hotel_previews, inflight, drill, tasks,
                   result_hotels, i, status, raised_in>>

\* lines 367-368: the cities of the country are through, final_result.json is written
CountryPersist ==
    /\ pc = "city"
    /\ city > Len(cities[country])
    /\ file_final' = Dump(final_result)
    /\ country' = country + 1
    /\ pc' = "country"
    /\ UNCHANGED <<inputs, review, faults, city, final_result, file_run, search, drill,
                   tasks, result_hotels, i, status, raised_in>>

\* ---------------------------------------------------------- scrape_search
\* lines 95-108: the first page arrives; the follow-up pages are requested
FirstPageReturn ==
    /\ pc = "first_page"
    /\ \/ \* the fetch raises
          /\ faults < MaxFaults
          /\ faults' = faults + 1
          /\ ExceptCity("fetch_listings")
          /\ UNCHANGED tasks
       \/ \* the heading has no count: parse_search_total_results raises
          /\ faults < MaxFaults
          /\ faults' = faults + 1
          /\ ExceptCity("fetch_listings")
          /\ UNCHANGED tasks
       \/ \E s \in Sites :
            LET total == parse_search_total_results(Heading(s.reported))
            IN  /\ site' = s
                /\ total_results' = total
                /\ hotel_previews' = parse_search_page(PageOf(s, 0))
                /\ requested' = requested \o OtherOffsets(total)
                /\ inflight' = Range(OtherOffsets(total))
                /\ pc' = "pages"
                /\ UNCHANGED <<inputs, review, faults, country, city, final_result, files,
                               drill, tasks, result_hotels, i, status, raised_in>>

\* a follow-up page that cannot be fetched is left out of the previews
PageReturnSkipsFailed(offset) ==
    /\ pc = "pages"
    /\ offset \in inflight
    /\ \/ /\ hotel_previews' =
                DictUpdate(hotel_previews, parse_search_page(PageOf(site, offset)))
          /\ UNCHANGED faults
       \/ /\ faults < MaxFaults
          /\ faults' = faults + 1
          /\ UNCHANGED hotel_previews
    /\ inflight' = inflight \ {offset}
    /\ UNCHANGED <<inputs, review, pc, country, city, final_result, files, site,
                   total_results, requested, drill, tasks, result_hotels, i, status,
                   raised_in>>

\* lines 108-109: a follow-up page arrives, in whatever order, and is merged
PageReturn(offset) ==
    /\ pc = "pages"
    /\ offset \in inflight
    /\ \/ /\ hotel_previews' =
                DictUpdate(hotel_previews, parse_search_page(PageOf(site, offset)))
          /\ inflight' = inflight \ {offset}
          /\ UNCHANGED <<inputs, review, faults, pc, country, city, final_result, files,
                         site, total_results, requested, drill, tasks,
                         result_hotels, i, status, raised_in>>
       \/ \* the fetch raises
          /\ faults < MaxFaults
          /\ faults' = faults + 1
          /\ ExceptCity("fetch_listings")
          /\ UNCHANGED tasks

\* lines 110, 273, 355, 299-306: the previews are returned, their URLs chunked
SearchReturn ==
    /\ pc = "pages"
    /\ inflight = {}
    /\ urls_list' = DictKeys(hotel_previews)
    /\ chunked_lists' = create_nested_list(DictKeys(hotel_previews))
    /\ drill_results' = <<>>
    /\ total_results' = 0
    /\ hotel_previews' = <<>>
    /\ requested' = <<>>
    /\ status' = [status EXCEPT ![<<country, city>>] = "LISTING_FETCHED"]
    /\ pc' = "chunk"
    /\ UNCHANGED <<raised_in, inputs, review, faults, country, city, final_result,
                   files, site, inflight, tasks, result_hotels, i>>

\* ---------------------------------------------------------- scrape_hotels
\* the tasks of the gather the driver is waiting for
Gathered ==
    {t \in tasks : /\ pc = "gather"
                   /\ t.country = country
                   /\ t.city = city
                   /\ t.chunk = Len(drill_results) + 1}

\* scrape_hotel(url) up to its first await: the detail page is requested
NewTask(p) ==
    [country |-> country, city |-> city, chunk |-> Len(drill_results) + 1,
     pos |-> p, url |-> chunked_lists[Len(drill_results) + 1][p],
     st |-> "detail", body |-> <<>>, cookies |-> "", req |-> NoRequest,
     hotel |-> NoHotel]

\* lines 307-308, 291, 205: the next chunk, one task per URL, all started
ChunkStart ==
    /\ pc = "chunk"
    /\ Len(drill_results) < Len(chunked_lists)
    /\ tasks' = tasks \cup
            {NewTask(p) : p \in 1..Len(chunked_lists[Len(drill_results) + 1])}
    /\ pc' = "gather"
    /\ UNCHANGED <<inputs, review, faults, country, city, final_result, files, search,
                   drill, result_hotels, i, status, raised_in>>

\* a task ends: the gather waiting for it keeps its outcome, nobody else does
Ended(t, u) ==
    IF t \in Gathered THEN (tasks \ {t}) \cup {u} ELSE tasks \ {t}

\* lines 156-186: the detail page of a task arrives
DetailReturn(t) ==
    /\ Awaiting
    /\ t \in tasks
    /\ t.st = "detail"
    /\ \/ \* the fetch raises
          /\ faults < MaxFaults
          /\ faults' = faults + 1
          /\ tasks' = Ended(t, [t EXCEPT !.st = "failed"])
       \/ \* parse_hotel or a token search finds nothing: IndexError
          /\ faults < MaxFaults
          /\ faults' = faults + 1
          /\ \E page \in pages :
                /\ ~page.read.ok
                /\ tasks' = Ended(t, [t EXCEPT !.st = "failed",
                                                !.body = page.body,
                                                !.cookies = page.cookies])
       \/ \E page \in pages :
            /\ page.read.ok
            /\ tasks' = (tasks \ {t}) \cup
                  {[t EXCEPT !.st = "price",
                             !.body = page.body,
                             !.cookies = page.cookies,
                             !.req = page.read.req,
                             !.hotel = [url |-> t.url,
                                        id |-> page.read.id,
                                        price |-> FALSE]]}
            /\ UNCHANGED faults
    /\ UNCHANGED <<inputs, review, pc, country, city, final_result, files, search, drill,
                   result_hotels, i, status, raised_in>>

\* lines 186-203: the price response of a task arrives
PriceReturn(t) ==
    /\ Awaiting
    /\ t \in tasks
    /\ t.st = "price"
    /\ \/ \* the fetch raises, or the response has no data
          /\ faults < MaxFaults
          /\ faults' = faults + 1
          /\ tasks' = Ended(t, [t EXCEPT !.st = "failed"])
       \/ /\ tasks' = Ended(t, [t EXCEPT !.st = "done", !.hotel.price = TRUE])
          /\ UNCHANGED faults
    /\ UNCHANGED <<inputs, review, pc, country, city, final_result, files, search, drill,
                   result_hotels, i, status, raised_in>>

\* the gather returns with the first task that is done
GatherReturnFirstDone ==
    /\ pc = "gather"
    /\ \E t \in Gathered : t.st = "done"
    /\ drill_results' = Append(drill_results,
            [p \in 1..1 |-> (CHOOSE t \in Gathered : t.st = "done").hotel])
    /\ tasks' = tasks \ {t \in Gathered : t.st = "done"}
    /\ pc' = "chunk"
    /\ UNCHANGED <<inputs, review, faults, country, city, final_result, files, search,
                   urls_list, chunked_lists, result_hotels, i, status, raised_in>>

\* the hotels of the chunk in the order their tasks completed, whichever it was
GatherReturnAsCompleted ==
    /\ pc = "gather"
    /\ \A t \in Gathered : t.st = "done"
    /\ \E order \in [1..Cardinality(Gathered) -> 1..Cardinality(Gathered)] :
            /\ \A p \in DOMAIN order : \A q \in DOMAIN order :
                    order[p] = order[q] => p = q
            /\ drill_results' = Append(drill_results,
                    [p \in 1..Cardinality(Gathered) |->
                        (CHOOSE t \in Gathered : t.pos = order[p]).hotel])
    /\ tasks' = tasks \ Gathered
    /\ pc' = "chunk"
    /\ UNCHANGED <<inputs, review, faults, country, city, final_result, files, search,
                   urls_list, chunked_lists, result_hotels, i, status, raised_in>>

\* lines 205-206, 308: every task of the chunk is done; their hotels in URL order
GatherReturn ==
    /\ pc = "gather"
    /\ \A t \in Gathered : t.st = "done"
    /\ drill_results' = Append(drill_results,
            [p \in 1..Cardinality(Gathered) |->
                (CHOOSE t \in Gathered : t.pos = p).hotel])
    /\ tasks' = tasks \ Gathered
    /\ pc' = "chunk"
    /\ UNCHANGED <<inputs, review, faults, country, city, final_result, files, search,
                   urls_list, chunked_lists, result_hotels, i, status, raised_in>>

\* the chunk whose task raised yields nothing and the drill goes on
GatherRaiseSkipsChunk ==
    /\ pc = "gather"
    /\ \E t \in Gathered : t.st = "failed"
    /\ drill_results' = Append(drill_results, <<>>)
    /\ tasks' = {t \in tasks : t.st \in {"detail", "price"}}
    /\ pc' = "chunk"
    /\ UNCHANGED <<inputs, review, faults, country, city, final_result, files, search,
                   urls_list, chunked_lists, result_hotels, i, status, raised_in>>

\* line 205: a task of the chunk raised; the gather raises, its other tasks run on
GatherRaise ==
    /\ pc = "gather"
    /\ \E t \in Gathered : t.st = "failed"
    /\ tasks' = {t \in tasks : t.st \in {"detail", "price"}}
    /\ ExceptCity("drill_listings")
    /\ UNCHANGED faults

\* ------------------------------------------------------------ drill_listings
\* lines 310-316, 356-357: the chunks are through; the city's entry is created
DrillReturn ==
    /\ pc = "chunk"
    /\ Len(drill_results) = Len(chunked_lists)
    /\ result_hotels' = Flatten(drill_results)
    /\ final_result' = [final_result EXCEPT ![country] = (CityName :> <<>>) @@ @]
    /\ i' = 0
    /\ status' = [status EXCEPT ![<<country, city>>] = "DRILLED"]
    /\ pc' = "append"
    /\ UNCHANGED <<raised_in, inputs, review, faults, country, city, files, search, drill, tasks>>

\* lines 358-359: the next hotel is appended to the city's list
AppendHotel ==
    /\ pc = "append"
    /\ i < Len(result_hotels)
    /\ final_result' = [final_result EXCEPT
            ![country][CityName] = Append(@, result_hotels[i + 1])]
    /\ pc' = "persist"
    /\ UNCHANGED <<inputs, review, faults, country, city, files, search, drill, tasks,
                   result_hotels, i, status, raised_in>>

\* the file is written once, after the last append of the city
PersistBatched ==
    /\ pc = "persist"
    /\ file_run' = IF i + 1 = Len(result_hotels) THEN Dump(final_result) ELSE file_run
    /\ i' = i + 1
    /\ pc' = "append"
    /\ UNCHANGED <<inputs, review, faults, country, city, final_result, file_final, search,
                   drill, tasks, result_hotels, status, raised_in>>

\* lines 360-362: the whole structure is written over the run's file
PersistFn ==
    /\ pc = "persist"
    /\ file_run' = Dump(final_result)
    /\ i' = i + 1
    /\ pc' = "append"
    /\ UNCHANGED <<inputs, review, faults, country, city, final_result, file_final, search,
                   drill, tasks, result_hotels, status, raised_in>>

\* the inner loop does not move on: the same city is taken again
CityDoneRetries ==
    /\ pc = "append"
    /\ i = Len(result_hotels)
    /\ status' = [status EXCEPT ![<<country, city>>] = "PERSISTED"]
    /\ pc' = "city"
    /\ ResetLocals
    /\ UNCHANGED <<raised_in, inputs, review, faults, country, city, final_result,
                   files, tasks>>

\* line 363: the city is through
CityDone ==
    /\ pc = "append"
    /\ i = Len(result_hotels)
    /\ status' = [status EXCEPT ![<<country, city>>] = "PERSISTED"]
    /\ city' = city + 1
    /\ pc' = "city"
    /\ ResetLocals
    /\ UNCHANGED <<raised_in, inputs, review, faults, country, final_result, files, tasks>>

\* --------------------------------------------------------- scrape_reviews
\* A review list shows the page numbers `listed` in its pagination and renders
\* `rows` reviews on each of its pages.
ReviewSites == {[listed |-> 1..n, rows |-> r] : n \in 0..MaxPages, r \in 1..2}

\* create_review_url: "offset": page * page_size
create_review_offset(page) == page * REVIEW_PAGE_SIZE

\* the reviews rendered on the page at `offset`, in page order
ReviewPage(s, offset) == [j \in 1..s.rows |-> [id |-> offset + j]]

\* parse_reviews: one record per review block, in page order
parse_reviews(blocks) == [j \in DOMAIN blocks |-> [id |-> blocks[j].id]]

\* max(int(page) for page in total_pages)
MaxOf(numbers) == CHOOSE m \in numbers : \A q \in numbers : q <= m

\* [create_review_url(page) for page in range(2, total_pages + 1)]
OtherReviewOffsets(total) == [k \in 1..(total - 1) |-> create_review_offset(k + 1)]

\* scrape_reviews raises: the call is over
ReviewsRaise ==
    /\ pc' = "reviews_raised"
    /\ inflight' = {}
    /\ UNCHANGED <<requested, review>>

\* line 260: the first review page is requested
ReviewsCall ==
    /\ pc = "reviews"
    /\ requested' = <<create_review_offset(1)>>
    /\ pc' = "reviews_first"
    /\ UNCHANGED <<inputs, review, faults, country, city, final_result, files, site,
                   total_results, hotel_previews, inflight, drill, tasks,
                   result_hotels, i, status, raised_in>>

\* lines 260-265: the first review page arrives; the other pages are requested
ReviewsFirstReturn ==
    /\ pc = "reviews_first"
    /\ \/ \* the fetch raises
          /\ faults < MaxFaults
          /\ faults' = faults + 1
          /\ ReviewsRaise
          /\ UNCHANGED site
       \/ \* no page number is listed: max() of an empty sequence raises
          \E s \in ReviewSites :
            /\ s.listed = {}
            /\ site' = s
            /\ ReviewsRaise
            /\ UNCHANGED faults
       \/ \E s \in ReviewSites :
            /\ s.listed # {}
            /\ site' = s
            /\ total_pages' = MaxOf(s.listed)
            /\ reviews' = parse_reviews(ReviewPage(s, requested[1]))
            /\ requested' = requested \o OtherReviewOffsets(MaxOf(s.listed))
            /\ inflight' = Range(OtherReviewOffsets(MaxOf(s.listed)))
            /\ pc' = "reviews_pages"
            /\ UNCHANGED faults
    /\ UNCHANGED <<inputs, country, city, final_result, files, total_results,
                   hotel_previews, drill, tasks, result_hotels, i, status, raised_in>>

\* lines 265-266: a review page arrives, in whatever order, and is appended
ReviewPageReturn(offset) ==
    /\ pc = "reviews_pages"
    /\ offset \in inflight
    /\ \/ /\ reviews' = reviews \o parse_reviews(ReviewPage(site, offset))
          /\ inflight' = inflight \ {offset}
          /\ UNCHANGED <<faults, pc, requested, total_pages>>
       \/ \* the fetch raises
          /\ faults < MaxFaults
          /\ faults' = faults + 1
          /\ ReviewsRaise
    /\ UNCHANGED <<inputs, country, city, final_result, files, site, total_results,
                   hotel_previews, drill, tasks, result_hotels, i, status, raised_in>>

\* line 267: every page has arrived, the reviews are returned
ReviewsReturn ==
    /\ pc = "reviews_pages"
    /\ inflight = {}
    /\ pc' = "reviews_done"
    /\ UNCHANGED <<inputs, review, faults, country, city, final_result, files,
                   search, drill, tasks, result_hotels, i, status, raised_in>>

\* ---------------------------------------------------------- specifications
Next ==
    \/ EnterCountry
    \/ RunReturn
    \/ StartCity
    \/ CountryPersist
    \/ FirstPageReturn
    \/ \E offset \in inflight : PageReturn(offset)
    \/ SearchReturn
    \/ ChunkStart
    \/ \E t \in tasks : DetailReturn(t)
    \/ \E t \in tasks : PriceReturn(t)
    \/ GatherReturn
    \/ GatherRaise
    \/ DrillReturn
    \/ AppendHotel
    \/ PersistFn
    \/ CityDone

Spec == Init /\ [][Next]_vars

\* scrape_search alone
NextSearch ==
    \/ EnterCountry
    \/ StartCity
    \/ FirstPageReturn
    \/ \E offset \in inflight : PageReturn(offset)
    \/ SearchReturn

SpecSearch == InitSearch /\ [][NextSearch]_vars

SpecDrill == InitDrill /\ [][Next]_vars

\* a listing of one hotel has no follow-up page
NextTokens ==
    \/ EnterCountry
    \/ RunReturn
    \/ StartCity
    \/ CountryPersist
    \/ FirstPageReturn
    \/ SearchReturn
    \/ ChunkStart
    \/ \E t \in tasks : DetailReturn(t)
    \/ \E t \in tasks : PriceReturn(t)
    \/ GatherReturn
    \/ GatherRaise
    \/ DrillReturn
    \/ AppendHotel
    \/ PersistFn
    \/ CityDone

SpecTokens == InitTokens /\ [][NextTokens]_vars

\* the event loop runs the driver whenever it is ready to go on
DriverFair ==
    /\ WF_vars(EnterCountry)
    /\ WF_vars(RunReturn)
    /\ WF_vars(StartCity)
    /\ WF_vars(CountryPersist)
    /\ WF_vars(SearchReturn)
    /\ WF_vars(ChunkStart)
    /\ WF_vars(GatherReturn)
    /\ WF_vars(GatherRaise)
    /\ WF_vars(DrillReturn)
    /\ WF_vars(AppendHotel)
    /\ WF_vars(PersistFn)
    /\ WF_vars(CityDone)

\* a fetch that was requested returns or raises
FetchFair ==
    /\ WF_vars(FirstPageReturn)
    /\ WF_vars(\E offset \in inflight : PageReturn(offset))
    /\ WF_vars(\E t \in tasks : DetailReturn(t))
    /\ WF_vars(\E t \in tasks : PriceReturn(t))

SpecLive == Init /\ [][Next]_vars /\ DriverFair /\ FetchFair

SpecCities == InitCities /\ [][NextTokens]_vars

SpecSiblings == InitSiblings /\ [][NextTokens]_vars

\* scrape_reviews alone
NextReviews ==
    \/ ReviewsCall
    \/ ReviewsFirstReturn
    \/ \E offset \in inflight : ReviewPageReturn(offset)
    \/ ReviewsReturn

SpecReviews == InitReviews /\ [][NextReviews]_vars

\* ------------------------------------------------------------------ claims
CeilDiv(a, b) == (a + b - 1) \div b

\* the follow-up requests of the running scrape_search
FollowUps == SubSeq(requested, 2, Len(requested))

\* every page of the running scrape_search has arrived and is merged
AllPagesResolved == pc = "pages" /\ inflight = {}

\* the keys on the result page at `offset` of the current site
KeysOf(offset) == {PageOf(site, offset)[j].key : j \in 1..PageCards(site, offset)}

\* C1 as stated: for every total count, 0 included, scrape_search issues
\* exactly ceil(totalCount/pageSize) - 1 follow-up requests, at the offsets
\* pageSize, 2*pageSize, ... below totalCount, and none at offset 0.
C1_AsStated ==
    pc = "pages" =>
        /\ Len(FollowUps) = CeilDiv(total_results, PAGE_SIZE) - 1
        /\ \A k \in 1..Len(FollowUps) :
                FollowUps[k] = k * PAGE_SIZE /\ FollowUps[k] < total_results
        /\ 0 \notin Range(FollowUps)

\* C1 amended: for every total count of at least 1, scrape_search issues
\* exactly ceil(totalCount/pageSize) - 1 follow-up requests, and for a count
\* of 0 it issues none; they are at the offsets pageSize, 2*pageSize, ...
\* below totalCount, every such offset once, and offset 0 is requested once,
\* by the first request.
C1_FollowUpRequests ==
    pc = "pages" =>
        /\ requested[1] = 0
        /\ Len(FollowUps) = IF total_results = 0 THEN 0
                            ELSE CeilDiv(total_results, PAGE_SIZE) - 1
        /\ \A k \in 1..Len(FollowUps) :
                FollowUps[k] = k * PAGE_SIZE /\ FollowUps[k] < total_results
        /\ (Len(FollowUps) + 1) * PAGE_SIZE >= total_results
        /\ 0 \notin Range(FollowUps)

C1_Witness ==
    /\ pc = "pages"
    /\ total_results = 2 * PAGE_SIZE
    /\ requested = <<0, PAGE_SIZE>>

\* C2: when all pages of a search have arrived, a key that two of the
\* requested pages contain has the value of the later page (the one at the
\* larger offset), in whatever order the follow-up pages arrived.
C2_LastPageWins ==
    AllPagesResolved =>
        \A o1 \in Range(requested), o2 \in Range(requested) :
            o1 < o2 =>
                \A k \in KeysOf(o1) \cap KeysOf(o2) :
                    /\ HasKey(hotel_previews, k)
                    /\ DictGet(hotel_previews, k).page =
                            CHOOSE o \in Range(requested) :
                                /\ k \in KeysOf(o)
                                /\ \A p \in Range(requested) : k \in KeysOf(p) => p <= o

C2_Witness ==
    /\ AllPagesResolved
    /\ \E k \in KeysOf(0) \cap KeysOf(PAGE_SIZE) :
            DictGet(hotel_previews, k).page = PAGE_SIZE

\* C9: when the first page reports more than 50 properties, the total is
\* taken as 50, exactly one further page is requested, the one at offset 25,
\* and the merged previews are at most 50.
C9_CeilingScenario ==
    (pc = "pages" /\ site.reported > 50) =>
        /\ total_results = 50
        /\ requested = <<0, 25>>
        /\ Len(hotel_previews) <= 50

C9_Witness ==
    /\ AllPagesResolved
    /\ site.reported = 3045
    /\ requested = <<0, 25>>
    /\ Len(hotel_previews) = 50

\* every item in a page's range has its card, and no key is on two pages
OneKeyPerItem ==
    /\ \A o \in Range(requested) :
            /\ PageCards(site, o) = Min(PAGE_SIZE, site.reported - o)
            /\ Cardinality(KeysOf(o)) = PageCards(site, o)
    /\ \A o1 \in Range(requested), o2 \in Range(requested) :
            o1 # o2 => KeysOf(o1) \cap KeysOf(o2) = {}

\* C10: when each page yields one key per item and no key is on two pages,
\* the merged result holds exactly totalCount distinct keys once all pages
\* have arrived.
C10_MergedCount ==
    (AllPagesResolved /\ OneKeyPerItem) =>
        /\ Cardinality(Range(DictKeys(hotel_previews))) = total_results
        /\ Len(hotel_previews) = total_results

C10_Witness ==
    /\ AllPagesResolved
    /\ OneKeyPerItem
    /\ requested = <<0, PAGE_SIZE>>
    /\ total_results = PAGE_SIZE + 5
    /\ Len(hotel_previews) = PAGE_SIZE + 5

IsPrefix(s, t) == Len(s) <= Len(t) /\ SubSeq(t, 1, Len(s)) = s

\* C3 as stated: once a city entry is written into BatchResult[country] it
\* is never removed or reset; each step leaves every list a prefix of what it
\* becomes, also when a city name occurs twice in a country's list.
C3_AsStated ==
    [][\A c \in DOMAIN final_result : \A n \in DOMAIN final_result[c] :
            /\ c \in DOMAIN final_result'
            /\ n \in DOMAIN final_result'[c]
            /\ IsPrefix(final_result[c][n], final_result'[c][n])]_vars

\* the listing fetch of the city raised: run() leaves fetch_listings for the
\* except clause
ListingRaises == pc \in {"first_page", "pages"} /\ pc' = "city"

AppendStep ==
    \E c \in DOMAIN final_result : \E n \in DOMAIN final_result[c] :
        /\ c \in DOMAIN final_result'
        /\ n \in DOMAIN final_result'[c]
        /\ Len(final_result'[c][n]) = Len(final_result[c][n]) + 1

\* C5: every append of a hotel to BatchResult is followed by a write of the
\* whole structure to the run's file before the next append and before any
\* task or fetch moves, and after that write the file equals BatchResult.
C5_PersistAfterEveryAppend ==
    /\ [][AppendStep => pc' = "persist"]_vars
    /\ [][pc = "persist" =>
            /\ pc' = "append"
            /\ final_result' = final_result
            /\ file_run' = Dump(final_result')
            /\ tasks' = tasks
            /\ requested' = requested]_vars
    /\ []((pc = "append" /\ i > 0) => file_run = Dump(final_result))

C5_Witness ==
    /\ pc = "append"
    /\ i = 2
    /\ Len(final_result[country][CityName]) = 2
    /\ file_run = Dump(final_result)

\* C6: the drills alive for one city are all of one chunk, and the chunk the
\* driver waits for starts only when the results of all chunks before it have
\* been collected.
C6_ChunksSequential ==
    /\ \A t \in tasks : \A u \in tasks :
            (u.country = t.country /\ u.city = t.city) => u.chunk = t.chunk
    /\ \A t \in Gathered : Len(drill_results) = t.chunk - 1
    /\ \A c \in DOMAIN drill_results :
            Len(drill_results[c]) = Len(chunked_lists[c])

C6_Witness ==
    /\ pc = "gather"
    /\ Len(drill_results) = 1
    /\ \E t \in tasks : t.chunk = 2 /\ t.st = "detail"

ChunkSizes == [c \in DOMAIN chunked_lists |-> Len(chunked_lists[c])]

\* C7: the chunks are contiguous slices of the URL list in its order, each of
\* at most 5 URLs and all but the last of exactly 5 (12 URLs: 5, 5, 2), and
\* the flattened drill results hold one hotel per URL in the order of the URLs.
C7_ChunksAndFlatten ==
    /\ \A c \in DOMAIN chunked_lists :
            /\ ChunkSizes[c] >= 1
            /\ ChunkSizes[c] <= 5
            /\ c < Len(chunked_lists) => ChunkSizes[c] = 5
            /\ \A p \in 1..ChunkSizes[c] :
                    chunked_lists[c][p] = urls_list[(c - 1) * 5 + p]
    /\ Len(urls_list) = IF chunked_lists = <<>> THEN 0
                        ELSE (Len(chunked_lists) - 1) * 5
                             + ChunkSizes[Len(chunked_lists)]
    /\ (pc = "chunk" /\ Len(urls_list) = 12) => ChunkSizes = <<5, 5, 2>>
    /\ pc \in {"append", "persist"} =>
            /\ Len(result_hotels) = Len(urls_list)
            /\ \A k \in 1..Len(urls_list) : result_hotels[k].url = urls_list[k]

C7_Witness ==
    /\ pc = "append"
    /\ Len(urls_list) = 12
    /\ ChunkSizes = <<5, 5, 2>>
    /\ Len(result_hotels) = 12
    /\ \A k \in 1..12 : result_hotels[k].url = urls_list[k]

\* the pattern  marker\s*'(.+?)'  has a match somewhere in the body
PatternPresent(body, marker) ==
    \E a \in 1..Len(body), k \in 1..Len(body), e \in 1..Len(body) :
        /\ a < k
        /\ k + 1 < e
        /\ body[a] = marker
        /\ \A m \in (a + 1)..(k - 1) : body[m] \in Whitespace
        /\ body[k] = "q"
        /\ body[e] = "q"
        /\ \A m \in (k + 1)..(e - 1) : body[m] # "n"

\* C8: on a detail page that arrived, the token extraction fails (the task
\* raises and sends no price request) if any of the three markers is absent,
\* and yields three non-empty tokens if all three are present.
C8_TokenExtraction ==
    \A t \in tasks :
        t.body # <<>> =>
            IF \A m \in 1..3 : PatternPresent(t.body, TokenMarkers[m])
            THEN /\ t.req # NoRequest
                 /\ t.req.csrf # <<>>
                 /\ t.req.aid # <<>>
                 /\ t.req.sid # <<>>
            ELSE /\ t.st = "failed"
                 /\ t.req = NoRequest

C8_Witness ==
    \E t \in tasks :
        /\ t.st = "price"
        /\ t.body # GoodBody
        /\ \A m \in 1..3 : PatternPresent(t.body, TokenMarkers[m])
        /\ t.req.csrf # <<>> /\ t.req.aid # <<>> /\ t.req.sid # <<>>

\* the previews of a site when its pages are merged in the order of their offsets
RECURSIVE MergeInOrder(_, _, _)
MergeInOrder(s, d, offsets) ==
    IF offsets = <<>> THEN d
    ELSE MergeInOrder(s, DictUpdate(d, parse_search_page(PageOf(s, Head(offsets)))),
                      Tail(offsets))

\* the URLs of a site's listing, as its source pages alone determine them
ListingOf(s) ==
    DictKeys(MergeInOrder(s, parse_search_page(PageOf(s, 0)),
                          OtherOffsets(parse_search_total_results(Heading(s.reported)))))

\* the hotels of a site's listing, as its source pages alone determine them;
\* the price window varies with the date and is left out
HotelsOf(s) ==
    [k \in DOMAIN ListingOf(s) |->
        [url |-> ListingOf(s)[k], id |-> ParseHotelId(GoodBody).group, price |-> TRUE]]

\* C11: the hotels stored for a city that succeeds are a function of the
\* source pages alone: in every interleaving of the page fetches and of the
\* drills they are the hotels of the listing in the listing's order, so two
\* runs over the same pages store equal lists.
C11_SamePagesSameList ==
    pc \in {"append", "persist"} =>
        /\ result_hotels = HotelsOf(site)
        /\ IsPrefix(final_result[country][CityName], HotelsOf(site))
        /\ (pc = "append" /\ i = Len(result_hotels)) =>
                final_result[country][CityName] = HotelsOf(site)

C11_Witness ==
    /\ pc = "append"
    /\ i = Len(result_hotels)
    /\ site.reported = PAGE_SIZE + 1
    /\ Len(final_result[country][CityName]) = PAGE_SIZE + 1
    /\ final_result[country][CityName] = HotelsOf(site)

\* the moves of a work item the state machine allows
Moves ==
    {<<"PENDING", "LISTING_FETCHED">>, <<"LISTING_FETCHED", "DRILLED">>,
     <<"DRILLED", "PERSISTED">>, <<"PENDING", "FAILED">>,
     <<"LISTING_FETCHED", "FAILED">>, <<"DRILLED", "FAILED">>}

Terminal == {"PERSISTED", "FAILED"}

\* C12: a work item changes state only by a move of PENDING ->
\* LISTING_FETCHED -> DRILLED -> PERSISTED or by a move into FAILED, and never
\* leaves PERSISTED or FAILED; when every fetch returns or raises, every work
\* item ends in one of the two terminal states, and run ends, after the last
\* country.
C12_WorkItemLifecycle ==
    /\ [][\A w \in Items(cities) :
            status'[w] # status[w] => <<status[w], status'[w]>> \in Moves]_vars
    /\ [](pc = "done" => country > Len(cities))
    /\ <>[](\A w \in Items(cities) : status[w] \in Terminal)
    /\ <>[](pc = "done")

C12_Witness ==
    /\ pc = "done"
    /\ country > Len(cities)
    /\ \E w \in Items(cities) : status[w] = "FAILED"
    /\ \E w \in Items(cities) : status[w] = "PERSISTED"

\* a drill of the chunk the driver waits for has raised
DrillRaised == pc = "gather" /\ \E t \in Gathered : t.st = "failed"

\* the work item has a namesake in its country's list
HasNamesake(w) ==
    \E k \in DOMAIN cities[w[1]] : k # w[2] /\ cities[w[1]][k] = cities[w[1]][w[2]]

\* C13: once a drill of a city raised, the city goes no way but into FAILED,
\* through the except clause of run; from the start of the city to its failure
\* BatchResult and the files do not change, so no hotel of the city is kept,
\* from whichever chunk; and no task of a failed city is ever started.
C13_DrillFailureDropsCity ==
    /\ [][DrillRaised =>
            /\ final_result' = final_result
            /\ files' = files
            /\ \/ pc' = "gather" /\ status' = status /\ drill_results' = drill_results
               \/ /\ pc' = "city"
                  /\ city' = city + 1
                  /\ status'[<<country, city>>] = "FAILED"
                  /\ raised_in'[<<country, city>>] = "drill_listings"]_vars
    /\ [][(pc \in {"first_page", "pages", "chunk", "gather"} /\ pc' # "append") =>
            final_result' = final_result /\ files' = files]_vars
    /\ [](\A w \in Items(cities) :
            (raised_in[w] = "drill_listings" /\ ~HasNamesake(w)) =>
                /\ status[w] = "FAILED"
                /\ cities[w[1]][w[2]] \notin DOMAIN final_result[w[1]])
    /\ [][\A u \in tasks' :
            status'[<<u.country, u.city>>] = "FAILED" =>
                \E t \in tasks : /\ t.country = u.country
                                 /\ t.city = u.city
                                 /\ t.chunk = u.chunk
                                 /\ t.pos = u.pos]_vars

C13_Witness ==
    /\ status[<<1, 1>>] = "FAILED"
    /\ raised_in[<<1, 1>>] = "drill_listings"
    /\ \E t \in tasks : t.chunk = 3 /\ t.st \in {"detail", "price"}
    /\ final_result = <<<<>>>>
    /\ file_run = NoFile

\* the drills in flight: tasks waiting for their detail page or their price response
InFlight == {t \in tasks : t.st \in {"detail", "price"}}

\* C14 as stated: at every moment at most 5 drills are in flight, also after a
\* chunk in which one drill raised while siblings had not completed and the
\* driver moved on to the next city.
C14_AsStated == Cardinality(InFlight) <= 5

\* C15: whatever the order in which the drills of a chunk complete, the list
\* scrape_hotels returns for the chunk has at its i-th place the hotel of the
\* chunk's i-th URL, and the hotels stored for the city follow the order of
\* the listing's URLs.
C15_ChunkOrderRestored ==
    /\ \A c \in DOMAIN drill_results :
            /\ Len(drill_results[c]) = Len(chunked_lists[c])
            /\ \A p \in DOMAIN drill_results[c] :
                    drill_results[c][p].url = chunked_lists[c][p]
    /\ pc \in {"append", "persist"} =>
            \A k \in DOMAIN final_result[country][CityName] :
                final_result[country][CityName][k].url = urls_list[k]

\* the first chunk was returned in URL order, and in the second chunk a later
\* drill is done before an earlier one has its page
C15_Witness ==
    /\ pc = "gather"
    /\ Len(drill_results) = 1
    /\ \A p \in 1..5 : drill_results[1][p].url = urls_list[p]
    /\ \E t \in Gathered : \E u \in Gathered :
            t.pos < u.pos /\ t.st = "detail" /\ u.st = "done"

\* C16: in every interleaving of the drills of a chunk, a drill has no price
\* request before its own detail page returned; the request it sends carries
\* the hotel id and the three tokens found in the body of that response and
\* the cookies of that response; and a drill whose page lacks a token sends no
\* price request.
C16_PriceRequestFromOwnPage ==
    \A t \in tasks :
        /\ t.st = "detail" => (t.body = <<>> /\ t.req = NoRequest)
        /\ t.st \in {"price", "done"} => t.req # NoRequest
        /\ t.req # NoRequest =>
                /\ t.body # <<>>
                /\ ExtractTokens(t.body).ok
                /\ t.req.hotel_id = ParseHotelId(t.body).group
                /\ <<t.req.csrf, t.req.aid, t.req.sid>> = ExtractTokens(t.body).tokens
                /\ t.req.cookies = t.cookies
                /\ t.req.cookies # SessionJar
        /\ (t.body # <<>> /\ ~ExtractTokens(t.body).ok) =>
                (t.st = "failed" /\ t.req = NoRequest)

\* two drills of one chunk wait for their price responses, each with the id,
\* the tokens and the cookies of its own page, which differ from the other's
C16_Witness ==
    \E t \in Gathered : \E u \in Gathered :
        /\ t.pos < u.pos
        /\ t.st = "price" /\ u.st = "price"
        /\ t.body = OtherBody /\ u.body = GoodBody
        /\ t.cookies # u.cookies
        /\ t.req.hotel_id # u.req.hotel_id
        /\ t.req.csrf # u.req.csrf
        /\ t.req.cookies = t.cookies /\ u.req.cookies = u.cookies
        /\ \E v \in Gathered : v.st = "failed" /\ v.body = BadBody /\ v.req = NoRequest

\* C17 as stated: when the cities of a country are through and the checkpoint
\* of the country is written, the run's own result document (the file named
\* after the run's timestamp) equals the complete BatchResult, cities with an
\* empty list and countries without a successful city included.
C17_AsStated ==
    (pc = "country" /\ country > 1) =>
        /\ file_final = Dump(final_result)
        /\ file_run = Dump(final_result)

\* a step in which a fetch of the running scrape_search raises, or its first
\* page turns out to have no count
SearchFault == pc \in {"first_page", "pages"} /\ faults' > faults /\ tasks' = tasks

\* C18: a failure inside scrape_search ends the call without a result: the
\* error goes to the except clause of run and the city is FAILED; when the
\* first page fails or has no count no follow-up page was requested; when a
\* follow-up page raises no previews come back; no page is requested twice,
\* and no drill of that city is ever started.
C18_SearchFailureAborts ==
    /\ [][SearchFault =>
            /\ pc' = "city"
            /\ city' = city + 1
            /\ status'[<<country, city>>] = "FAILED"
            /\ raised_in'[<<country, city>>] = "fetch_listings"
            /\ pc = "first_page" => requested = <<0>>
            /\ requested' = <<>> /\ inflight' = {}
            /\ hotel_previews' = <<>> /\ urls_list' = <<>> /\ chunked_lists' = <<>>
            /\ final_result' = final_result
            /\ files' = files]_vars
    /\ [](\A a \in DOMAIN requested : \A b \in DOMAIN requested :
            requested[a] = requested[b] => a = b)
    /\ [](\A w \in Items(cities) :
            raised_in[w] = "fetch_listings" =>
                /\ status[w] = "FAILED"
                /\ \A t \in tasks : <<t.country, t.city>> # w)

C18_Witness ==
    /\ pc = "done"
    /\ cities[1] = <<1, 2>>
    /\ status[<<1, 1>>] = "PERSISTED"
    /\ Len(final_result[1][1]) = 2
    /\ raised_in[<<1, 2>>] = "fetch_listings"
    /\ status[<<1, 2>>] = "FAILED"
    /\ cities[1][2] \notin DOMAIN final_result[1]

\* the reviews of the pages in the order they were requested
RECURSIVE ReviewsOf(_)
ReviewsOf(offsets) ==
    IF offsets = <<>> THEN <<>>
    ELSE parse_reviews(ReviewPage(site, Head(offsets))) \o ReviewsOf(Tail(offsets))

\* C19 as stated: total_pages is the largest listed page number, the pages 2
\* to total_pages are requested once each at offset page * page_size after the
\* first page arrived, and the merged review list is the same (the reviews in
\* the order of the requests) in whatever order the pages arrive.
C19_AsStated ==
    pc \in {"reviews_pages", "reviews_done"} =>
        /\ \A q \in site.listed : q <= total_pages
        /\ total_pages \in site.listed
        /\ Len(requested) = total_pages
        /\ \A k \in 2..total_pages : requested[k] = k * REVIEW_PAGE_SIZE
        /\ pc = "reviews_done" => reviews = ReviewsOf(requested)

====
